---- MODULE Spec2Model ----
(***************************************************************************)
(* Scene collections of source/blender/blenkernel/intern/collection.c:     *)
(* the SceneCollection tree of one Scene, the LayerCollection trees of its *)
(* render layers, object membership with user counts, conversion of a      *)
(* collection into a Group, and the two iterators.                         *)
(*                                                                         *)
(* A SceneCollection pointer is a slot number; NULL is 0 and the master    *)
(* collection of the scene is slot 1.  An intrusive ListBase is a sequence *)
(* (first .. last).  A LayerCollection tree is a nested value.  The        *)
(* filter_objects list is left out: no function of the file ever adds to   *)
(* it, so it is empty in every state.                                      *)
(***************************************************************************)
EXTENDS Integers, Sequences, FiniteSets, TLC

\* Bounds of the model.
MaxColl == 4
MaxLinkedColl == 3
MaxObj == 2
MaxLayers == 1
MaxLinks == 2
MaxGroups == 1
MaxLayerCollections == 3
MaxObjLinks == 3
MaxUserLinks == 2
MaxRefuseLinks == 1

NULL == 0
sc_master == 1

COLLECTION_TYPE_NONE == "COLLECTION_TYPE_NONE"
COLLECTION_TYPE_GROUP_INTERNAL == "COLLECTION_TYPE_GROUP_INTERNAL"
COLLECTION_TYPE_GROUP == "COLLECTION_TYPE_GROUP"

Colls == 1..MaxColl
Objs == 1..MaxObj
Layers == 1..MaxLayers

VARIABLES
  alive,              \* allocated SceneCollections of the scene
  scene_collections,  \* sc -> its nested SceneCollections (ListBase)
  objects,            \* sc -> its objects (ListBase of LinkData)
  name,               \* sc -> its name
  type,               \* sc -> its type
  group,              \* sc -> the Group attached to it (NULL: none)
  us,                 \* object -> its user count (ID.us)
  render_layers,      \* the scene's SceneLayers
  groups,             \* the Groups of bmain, in creation order
  synced,             \* calls into the layer engine made by the last operation
  converted,          \* LayerCollections BKE_layer_collection_convert was called on
  last,               \* the last operation, its arguments and what it returned
  iter                \* the iterator of FOREACH_SCENE_OBJECT / FOREACH_SCENE_COLLECTION

vars == <<alive, scene_collections, objects, name, type, group, us,
          render_layers, groups, synced, converted, last, iter>>

Range(s) == {s[i] : i \in DOMAIN s}

(***************************************************************************)
(* Names.  A name is its text before the numeric suffix and the number of  *)
(* the suffix (0: no suffix), which is how BLI_uniquename_cb reads it.     *)
(***************************************************************************)
Name(base, nr) == [base |-> base, nr |-> nr]
EmptyName == Name("", 0)
MasterName == Name("Master Collection", 0)
NewCollectionName == Name("New Collection", 0)
DefaultName == Name("Collection", 0)

(***************************************************************************)
(* ListBase primitives (BLI_listbase).                                     *)
(***************************************************************************)
BLI_addtail(lb, link) == Append(lb, link)

BLI_findindex(lb, link) ==
  IF link \in Range(lb)
  THEN CHOOSE i \in DOMAIN lb : lb[i] = link /\ \A j \in 1..(i - 1) : lb[j] # link
  ELSE 0

BLI_remlink(lb, link) ==
  LET i == BLI_findindex(lb, link) IN
  IF i = 0 THEN lb ELSE SubSeq(lb, 1, i - 1) \o SubSeq(lb, i + 1, Len(lb))

\* An empty list takes the link; a link that is not of the list (the moved
\* link itself, just unlinked) leaves the list as it is and newlink outside it.
BLI_insertlinkbefore(lb, nextlink, newlink) ==
  LET i == BLI_findindex(lb, nextlink) IN
  IF lb = <<>> THEN <<newlink>>
  ELSE IF i = 0 THEN lb
  ELSE SubSeq(lb, 1, i - 1) \o <<newlink>> \o SubSeq(lb, i, Len(lb))

BLI_insertlinkafter(lb, prevlink, newlink) ==
  LET i == BLI_findindex(lb, prevlink) IN
  IF lb = <<>> THEN <<newlink>>
  ELSE IF i = 0 THEN lb
  ELSE SubSeq(lb, 1, i) \o <<newlink>> \o SubSeq(lb, i + 1, Len(lb))

\* sc->prev and sc->next: the neighbours of sc in the list that holds it.
HolderOf(sc) ==
  IF \E p \in Colls : sc \in Range(scene_collections[p])
  THEN CHOOSE p \in Colls : sc \in Range(scene_collections[p])
  ELSE NULL

sc_prev(sc) ==
  LET p == HolderOf(sc) IN
  IF p = NULL THEN NULL
  ELSE LET i == BLI_findindex(scene_collections[p], sc) IN
       IF i = 1 THEN NULL ELSE scene_collections[p][i - 1]

sc_next(sc) ==
  LET p == HolderOf(sc) IN
  IF p = NULL THEN NULL
  ELSE LET i == BLI_findindex(scene_collections[p], sc) IN
       IF i = Len(scene_collections[p]) THEN NULL ELSE scene_collections[p][i + 1]

listbase_last(lb) == IF lb = <<>> THEN NULL ELSE lb[Len(lb)]

(***************************************************************************)
(* User counts (BKE_library).                                              *)
(***************************************************************************)
id_us_plus(n) == n + 1
id_us_min(n) == IF n <= 0 THEN 0 ELSE n - 1

RECURSIVE id_us_min_all(_, _)
id_us_min_all(u, links) ==
  IF links = <<>> THEN u
  ELSE id_us_min_all([u EXCEPT ![Head(links)] = id_us_min(@)], Tail(links))

(***************************************************************************)
(* The collections an operation can be handed: those a caller finds by     *)
(* walking the scene's tree from the master collection.                    *)
(***************************************************************************)
RECURSIVE ReachN(_, _, _)
ReachN(tree, S, n) ==
  IF n = 0 THEN S
  ELSE ReachN(tree, S \cup {c \in Colls : \E p \in S : c \in Range(tree[p])}, n - 1)

NestedIn(tree, sc) == ReachN(tree, Range(tree[sc]), MaxColl)
InTree == {sc_master} \cup NestedIn(scene_collections, sc_master)

(***************************************************************************)
(* Searching the tree.                                                     *)
(***************************************************************************)
RECURSIVE find_parent_from(_, _, _, _)
find_parent_from(tree, sc_child, sc_parent, i) ==
  IF i > Len(tree[sc_parent]) THEN NULL
  ELSE LET sc_nested == tree[sc_parent][i] IN
       IF sc_nested = sc_child THEN sc_parent
       ELSE LET found == find_parent_from(tree, sc_child, sc_nested, 1) IN
            IF found # NULL THEN found
            ELSE find_parent_from(tree, sc_child, sc_parent, i + 1)

find_collection_parent(sc_child, sc_parent) ==
  find_parent_from(scene_collections, sc_child, sc_parent, 1)

is_collection_in_tree(sc_reference, sc_parent) ==
  find_collection_parent(sc_reference, sc_parent) # NULL

RECURSIVE remlink_from(_, _, _, _)
remlink_from(tree, sc_parent, sc_gone, i) ==
  IF i > Len(tree[sc_parent]) THEN [found |-> FALSE, tree |-> tree]
  ELSE LET sc == tree[sc_parent][i] IN
       IF sc = sc_gone
       THEN [found |-> TRUE, tree |-> [tree EXCEPT ![sc_parent] = BLI_remlink(@, sc_gone)]]
       ELSE LET r == remlink_from(tree, sc, sc_gone, 1) IN
            IF r.found THEN r ELSE remlink_from(tree, sc_parent, sc_gone, i + 1)

collection_remlink(tree, sc_parent, sc_gone) == remlink_from(tree, sc_parent, sc_gone, 1)

(***************************************************************************)
(* Freeing.  A store is the part of the state collection_free works on.    *)
(***************************************************************************)
Store ==
  [alive |-> alive, scene_collections |-> scene_collections, objects |-> objects,
   name |-> name, type |-> type, group |-> group, us |-> us]

MEM_freeN(st, sc) ==
  [st EXCEPT !.alive = @ \ {sc}, !.name[sc] = EmptyName,
             !.type[sc] = COLLECTION_TYPE_NONE, !.group[sc] = NULL,
             !.objects[sc] = <<>>, !.scene_collections[sc] = <<>>]

RECURSIVE BLI_freelistN(_, _)
BLI_freelistN(st, lb) ==
  IF lb = <<>> THEN st ELSE BLI_freelistN(MEM_freeN(st, Head(lb)), Tail(lb))

\* The free that does not go into the nested collections.
collection_free_shallow(st, sc, do_id_user) ==
  [st EXCEPT !.us = IF do_id_user THEN id_us_min_all(@, st.objects[sc]) ELSE @,
             !.objects[sc] = <<>>,
             !.scene_collections[sc] = <<>>]

RECURSIVE collection_free(_, _, _)
RECURSIVE collection_free_each(_, _, _)
collection_free_each(st, lb, do_id_user) ==
  IF lb = <<>> THEN st
  ELSE collection_free_each(collection_free(st, Head(lb), do_id_user), Tail(lb), do_id_user)

collection_free(st, sc, do_id_user) ==
  LET nested == st.scene_collections[sc]
      st1 == [st EXCEPT !.us = IF do_id_user THEN id_us_min_all(@, st.objects[sc]) ELSE @,
                        !.objects[sc] = <<>>]
      st2 == collection_free_each(st1, nested, do_id_user)
  IN  [BLI_freelistN(st2, nested) EXCEPT !.scene_collections[sc] = <<>>]

(***************************************************************************)
(* The layer engine (BKE_layer): what its entry points do to the           *)
(* LayerCollection trees of the render layers.                             *)
(***************************************************************************)
COLLECTION_FLAG_DEFAULT == {"COLLECTION_VISIBLE", "COLLECTION_SELECTABLE"}

LayerCollection(sc, nested) ==
  [scene_collection |-> sc, flag |-> COLLECTION_FLAG_DEFAULT,
   flag_evaluated |-> COLLECTION_FLAG_DEFAULT, layer_collections |-> nested]

\* A new LayerCollection for sc, populated with one for each nested collection.
RECURSIVE layer_collection_add(_, _)
layer_collection_add(tree, sc) ==
  LayerCollection(sc, [i \in 1..Len(tree[sc]) |-> layer_collection_add(tree, tree[sc][i])])

RECURSIVE lc_references(_, _)
lc_references(lb, sc) ==
  \E i \in 1..Len(lb) :
    lb[i].scene_collection = sc \/ lc_references(lb[i].layer_collections, sc)

\* Every LayerCollection of sc_parent gets a LayerCollection for the new sc.
RECURSIVE lc_sync_new(_, _, _, _)
lc_sync_new(tree, lb, sc_parent, sc) ==
  [i \in 1..Len(lb) |->
     LET nested == lc_sync_new(tree, lb[i].layer_collections, sc_parent, sc) IN
     [lb[i] EXCEPT !.layer_collections =
        IF lb[i].scene_collection = sc_parent
        THEN Append(nested, layer_collection_add(tree, sc))
        ELSE nested]]

BKE_layer_sync_new_scene_collection(layers, tree, sc_parent, sc) ==
  [sl \in Layers |->
     [layers[sl] EXCEPT !.layer_collections = lc_sync_new(tree, @, sc_parent, sc)]]

\* Every LayerCollection of sc gets its nested LayerCollections rebuilt after
\* sc's nested collections: the one it had for a collection is kept, a missing
\* one is added, the others are freed.
RECURSIVE lc_resync(_, _, _)
lc_resync(tree, lb, sc) ==
  [i \in 1..Len(lb) |->
     IF lb[i].scene_collection = sc
     THEN [lb[i] EXCEPT !.layer_collections =
             LET old == @ IN
             [k \in 1..Len(tree[sc]) |->
                IF \E j \in 1..Len(old) : old[j].scene_collection = tree[sc][k]
                THEN old[CHOOSE j \in 1..Len(old) :
                           /\ old[j].scene_collection = tree[sc][k]
                           /\ \A h \in 1..(j - 1) : old[h].scene_collection # tree[sc][k]]
                ELSE layer_collection_add(tree, tree[sc][k])]]
     ELSE [lb[i] EXCEPT !.layer_collections = lc_resync(tree, @, sc)]]

BKE_layer_collection_resync(layers, tree, sc) ==
  [sl \in Layers |-> [layers[sl] EXCEPT !.layer_collections = lc_resync(tree, @, sc)]]

\* The resync of sc never returns when a LayerCollection of sc is left and sc
\* is nested in itself: populating the LayerCollection recurses without end.
ResyncRecurses(layers, tree, sc) ==
  /\ \E sl \in Layers : lc_references(layers[sl].layer_collections, sc)
  /\ \E c \in {sc} \cup NestedIn(tree, sc) : c \in NestedIn(tree, c)

(***************************************************************************)
(* Unique names.                                                           *)
(***************************************************************************)
RECURSIVE collection_unique_name_check(_, _, _)
collection_unique_name_check(lb, lookup_sc, nm) ==
  \E i \in 1..Len(lb) :
    \/ lb[i] # lookup_sc /\ name[lb[i]] = nm
    \/ collection_unique_name_check(scene_collections[lb[i]], lookup_sc, nm)

\* BLI_uniquename_cb, with used the names its callback answers true for: an
\* empty name becomes defname; a name that is in use gets the first free
\* number above its own as its suffix.
BLI_uniquename_cb(used, defname, nm0) ==
  LET nm == IF nm0 = EmptyName THEN defname ELSE nm0 IN
  IF nm \notin used THEN nm
  ELSE LET free == {k \in (nm.nr + 1)..(nm.nr + MaxColl) : Name(nm.base, k) \notin used}
       IN  Name(nm.base, CHOOSE k \in free : \A j \in free : k <= j)

collection_rename(sc, nm) ==
  LET used == {n \in {name[c] : c \in Colls} :
                 collection_unique_name_check(scene_collections[sc_master], sc, n)}
  IN  BLI_uniquename_cb(used, DefaultName, nm)

(***************************************************************************)
(* What an operation leaves behind for the claims to read.                 *)
(***************************************************************************)
\* ret: the boolean returned, or whether the pointer returned is not NULL.
CallOnLayer(op, sc_dst, sc_src, ob, sl, lc, ret, res) ==
  [op |-> op, sc_dst |-> sc_dst, sc_src |-> sc_src, ob |-> ob,
   sl |-> sl, lc |-> lc, ret |-> ret, res |-> res]

Call(op, sc_dst, sc_src, ob, ret) ==
  CallOnLayer(op, sc_dst, sc_src, ob, NULL, <<>>, ret, NULL)

NoIter == [active |-> FALSE]

treeVars == <<alive, scene_collections, name, type, group>>

\* A refusal that comes after the resync of the source's parent.
Refused_after_resync(op, sc_dst, sc_src) ==
  /\ last' = Call(op, sc_dst, sc_src, NULL, FALSE)
  /\ synced' = <<<<"BKE_layer_collection_resync", sc_src, NULL>>>>
  /\ converted' = {}
  /\ UNCHANGED <<treeVars, objects, us, render_layers, groups, iter>>

\* An operation that returns false (or NULL) at a guard.
Refused(op, sc_dst, sc_src) ==
  /\ last' = Call(op, sc_dst, sc_src, NULL, FALSE)
  /\ synced' = <<>>
  /\ converted' = {}
  /\ UNCHANGED <<treeVars, objects, us, render_layers, groups, iter>>

(***************************************************************************)
(* BKE_collection_add                                                      *)
(***************************************************************************)
NULL_NAME == Name("<NULL>", 0)

\* The block MEM_callocN returns: the first free one of the pool.
MEM_callocN(pool) ==
  {sc \in pool \ alive : \A other \in pool \ alive : sc <= other}

\* sc is the block MEM_callocN returned.
BKE_collection_add(sc, sc_parent_in, ctype, name_in) ==
  /\ sc \in Colls \ alive
  /\ LET nm == IF name_in = NULL_NAME THEN NewCollectionName ELSE name_in
         sc_parent == IF sc_parent_in = NULL THEN sc_master ELSE sc_parent_in
         tree == [scene_collections EXCEPT ![sc_parent] = BLI_addtail(@, sc)]
     IN  /\ alive' = alive \cup {sc}
         /\ type' = [type EXCEPT ![sc] = ctype]
         /\ name' = [name EXCEPT ![sc] = collection_rename(sc, nm)]
         /\ scene_collections' = tree
         /\ render_layers' =
              BKE_layer_sync_new_scene_collection(render_layers, tree, sc_parent, sc)
         /\ synced' = << <<"BKE_layer_sync_new_scene_collection", sc_parent, sc>> >>
         /\ last' = Call("BKE_collection_add", sc_parent_in, sc, NULL, TRUE)
  /\ converted' = {}
  /\ UNCHANGED <<group, objects, us, groups, iter>>

BKE_collection_rename(sc, name_in) ==
  /\ name' = [name EXCEPT ![sc] = collection_rename(sc, name_in)]
  /\ last' = Call("BKE_collection_rename", NULL, sc, NULL, TRUE)
  /\ synced' = <<>>
  /\ converted' = {}
  /\ UNCHANGED <<alive, scene_collections, type, group, objects, us,
                 render_layers, groups, iter>>

(***************************************************************************)
(* BKE_collection_remove                                                   *)
(***************************************************************************)
\* Within one list: a LayerCollection of sc is freed with all it holds; below
\* the top level the walk of the list then ends.
RECURSIVE layer_collection_remove(_, _, _, _)
layer_collection_remove(lb, i, sc, top) ==
  IF i > Len(lb) THEN <<>>
  ELSE IF lb[i].scene_collection = sc
  THEN IF top THEN layer_collection_remove(lb, i + 1, sc, top)
       ELSE SubSeq(lb, i + 1, Len(lb))
  ELSE <<[lb[i] EXCEPT !.layer_collections = layer_collection_remove(@, 1, sc, FALSE)]>>
       \o layer_collection_remove(lb, i + 1, sc, top)

\* The guard that lets every collection through.
collection_remove_unguarded(sc) == FALSE

collection_remove_refused(sc) == sc = sc_master

BKE_collection_remove(sc) ==
  IF collection_remove_refused(sc) THEN Refused("BKE_collection_remove", NULL, sc)
  ELSE LET unlinked == collection_remlink(scene_collections, sc_master, sc)
           st == MEM_freeN(collection_free([Store EXCEPT !.scene_collections = unlinked.tree],
                                           sc, TRUE), sc)
       IN  /\ alive' = st.alive
           /\ scene_collections' = st.scene_collections
           /\ objects' = st.objects
           /\ name' = st.name
           /\ type' = st.type
           /\ group' = st.group
           /\ us' = st.us
           /\ render_layers' =
                [sl \in Layers |->
                   [layer_collections |->
                      layer_collection_remove(render_layers[sl].layer_collections, 1, sc, TRUE),
                    active_collection |-> 0]]
           /\ synced' = <<>>
           /\ converted' = {}
           /\ last' = Call("BKE_collection_remove", NULL, sc, NULL, TRUE)
           /\ UNCHANGED <<groups, iter>>

(***************************************************************************)
(* BKE_collection_move_above / _below / _into                              *)
(***************************************************************************)
\* The resyncs in the other order.
move_resyncs_new_parent_first(sc_src_parent, sc_new_parent) ==
  <<sc_new_parent, sc_src_parent>>

\* The resyncs that end a move: the old parent of sc_src, then its new one.
move_resyncs(sc_src_parent, sc_new_parent) == <<sc_src_parent, sc_new_parent>>

RECURSIVE resync_each(_, _, _)
resync_each(layers, tree, scs) ==
  IF scs = <<>> THEN layers
  ELSE resync_each(BKE_layer_collection_resync(layers, tree, Head(scs)), tree, Tail(scs))

RECURSIVE resyncs_return(_, _, _)
resyncs_return(layers, tree, scs) ==
  IF scs = <<>> THEN TRUE
  ELSE /\ ~ResyncRecurses(layers, tree, Head(scs))
       /\ resyncs_return(BKE_layer_collection_resync(layers, tree, Head(scs)), tree, Tail(scs))

\* The relinked tree, the resyncs, and the move's return of true.
Moved(op, sc_dst, sc_src, tree, resyncs) ==
  /\ resyncs_return(render_layers, tree, resyncs)
  /\ render_layers' = resync_each(render_layers, tree, resyncs)
  /\ scene_collections' = tree
  /\ synced' = [i \in 1..Len(resyncs) |-> <<"BKE_layer_collection_resync", resyncs[i], NULL>>]
  /\ converted' = {}
  /\ last' = Call(op, sc_dst, sc_src, NULL, TRUE)
  /\ UNCHANGED <<alive, name, type, group, objects, us, groups, iter>>

move_above_refused(sc_dst, sc_src) ==
  \/ sc_master \in {sc_src, sc_dst}
  \/ sc_prev(sc_dst) = sc_src
  \/ is_collection_in_tree(sc_dst, sc_src)

BKE_collection_move_above(sc_dst, sc_src) ==
  IF move_above_refused(sc_dst, sc_src)
  THEN Refused("BKE_collection_move_above", sc_dst, sc_src)
  ELSE LET sc_src_parent == find_collection_parent(sc_src, sc_master)
           sc_dst_parent == find_collection_parent(sc_dst, sc_master)
           unlinked == [scene_collections EXCEPT ![sc_src_parent] = BLI_remlink(@, sc_src)]
           tree == [unlinked EXCEPT ![sc_dst_parent] = BLI_insertlinkbefore(@, sc_dst, sc_src)]
       IN  Moved("BKE_collection_move_above", sc_dst, sc_src, tree,
                 move_resyncs(sc_src_parent, sc_dst_parent))

move_below_refused(sc_dst, sc_src) ==
  \/ sc_master \in {sc_src, sc_dst}
  \/ sc_next(sc_dst) = sc_src
  \/ is_collection_in_tree(sc_dst, sc_src)

BKE_collection_move_below(sc_dst, sc_src) ==
  IF move_below_refused(sc_dst, sc_src)
  THEN Refused("BKE_collection_move_below", sc_dst, sc_src)
  ELSE LET sc_src_parent == find_collection_parent(sc_src, sc_master)
           sc_dst_parent == find_collection_parent(sc_dst, sc_master)
           unlinked == [scene_collections EXCEPT ![sc_src_parent] = BLI_remlink(@, sc_src)]
           tree == [unlinked EXCEPT ![sc_dst_parent] = BLI_insertlinkafter(@, sc_dst, sc_src)]
       IN  Moved("BKE_collection_move_below", sc_dst, sc_src, tree,
                 move_resyncs(sc_src_parent, sc_dst_parent))

move_into_refused(sc_dst, sc_src) ==
  \/ sc_src = sc_master
  \/ is_collection_in_tree(sc_dst, sc_src)
  \/ listbase_last(scene_collections[sc_dst]) = sc_src

BKE_collection_move_into(sc_dst, sc_src) ==
  IF move_into_refused(sc_dst, sc_src)
  THEN Refused("BKE_collection_move_into", sc_dst, sc_src)
  ELSE LET sc_src_parent == find_collection_parent(sc_src, sc_master)
           unlinked == [scene_collections EXCEPT ![sc_src_parent] = BLI_remlink(@, sc_src)]
           tree == [unlinked EXCEPT ![sc_dst] = BLI_addtail(@, sc_src)]
       IN  Moved("BKE_collection_move_into", sc_dst, sc_src, tree,
                 move_resyncs(sc_src_parent, sc_dst))

(***************************************************************************)
(* BKE_collection_link (BKE_layer): sc linked into a render layer, as a    *)
(* new top-level LayerCollection.                                          *)
(***************************************************************************)
BKE_collection_link(sl, sc) ==
  /\ Len(render_layers[sl].layer_collections) < MaxLinks
  /\ render_layers' =
       [render_layers EXCEPT ![sl].layer_collections =
          BLI_addtail(@, layer_collection_add(scene_collections, sc))]
  /\ last' = CallOnLayer("BKE_collection_link", NULL, sc, NULL, sl, <<>>, TRUE, NULL)
  /\ synced' = <<>>
  /\ converted' = {}
  /\ UNCHANGED <<treeVars, objects, us, groups, iter>>

\* The editors' choice of a render layer's active collection.
layer_set_active_collection(sl, n) ==
  /\ render_layers[sl].active_collection # n
  /\ render_layers' = [render_layers EXCEPT ![sl].active_collection = n]
  /\ last' = CallOnLayer("active_collection", NULL, NULL, NULL, sl, <<>>, TRUE, NULL)
  /\ synced' = <<>>
  /\ converted' = {}
  /\ UNCHANGED <<treeVars, objects, us, groups, iter>>

(***************************************************************************)
(* LayerCollections by their place: the indices from the render layer's    *)
(* list down to the LayerCollection.                                       *)
(***************************************************************************)
RECURSIVE lc_paths(_)
lc_paths(lb) ==
  UNION {{<<i>>} \cup {<<i>> \o p : p \in lc_paths(lb[i].layer_collections)} :
           i \in 1..Len(lb)}

RECURSIVE lc_at(_, _)
lc_at(lb, path) ==
  IF Len(path) = 1 THEN lb[path[1]]
  ELSE lc_at(lb[path[1]].layer_collections, Tail(path))

(***************************************************************************)
(* BKE_collection_group_create                                             *)
(***************************************************************************)
\* The copy of the objects list alone, without the nested collections.
collection_copy_data_shallow(sc_src) ==
  [objects |-> objects[sc_src], scene_collections |-> <<>>]

\* BKE_collection_copy_data: the objects and the nested collections of sc_src,
\* each nested collection a duplicate of the struct with its lists copied.
RECURSIVE collection_copy_data(_)
collection_copy_data(sc_src) ==
  [objects |-> objects[sc_src],
   scene_collections |->
     [i \in 1..Len(scene_collections[sc_src]) |->
        LET nsc_src == scene_collections[sc_src][i]
            nsc_dst == collection_copy_data(nsc_src)
        IN  [name |-> name[nsc_src], type |-> type[nsc_src],
             objects |-> nsc_dst.objects,
             scene_collections |-> nsc_dst.scene_collections]]]

\* The links the copy duplicates, each a user unless the flag says not to count.
RECURSIVE copied_links(_)
RECURSIVE copied_links_each(_)
copied_links_each(lb) ==
  IF lb = <<>> THEN <<>> ELSE copied_links(Head(lb)) \o copied_links_each(Tail(lb))

copied_links(sc_src) == objects[sc_src] \o copied_links_each(scene_collections[sc_src])

RECURSIVE id_us_plus_all(_, _)
id_us_plus_all(u, links) ==
  IF links = <<>> THEN u
  ELSE id_us_plus_all([u EXCEPT ![Head(links)] = id_us_plus(@)], Tail(links))

\* The copy with LIB_ID_CREATE_NO_USER_REFCOUNT ignored.
copy_data_users_counted(u, sc_src, no_user_refcount) ==
  id_us_plus_all(u, copied_links(sc_src))

copy_data_users(u, sc_src, no_user_refcount) ==
  IF no_user_refcount THEN u ELSE id_us_plus_all(u, copied_links(sc_src))

\* FOREACH_SCENE_COLLECTION(&group->id, sc_group) sc_group->type = ...
RECURSIVE group_retype(_, _)
group_retype(gc, ctype) ==
  [gc EXCEPT !.type = ctype,
             !.scene_collections = [i \in 1..Len(@) |-> group_retype(@[i], ctype)]]

\* BKE_collection_link on the group's own layer: a LayerCollection for the
\* group's collection at path, with one for each collection nested in it.
RECURSIVE group_layer_collection_add(_, _)
group_layer_collection_add(gc, path) ==
  LayerCollection(path,
    [i \in 1..Len(gc.scene_collections) |->
       group_layer_collection_add(gc.scene_collections[i], path \o <<i>>)])

RECURSIVE layer_collection_sync(_, _)
layer_collection_sync(lc_dst, lc_src) ==
  [lc_dst EXCEPT
     !.flag = lc_src.flag,
     !.flag_evaluated = lc_src.flag_evaluated,
     !.layer_collections =
        [i \in 1..Len(@) |->
           IF i <= Len(lc_src.layer_collections)
           THEN layer_collection_sync(@[i], lc_src.layer_collections[i])
           ELSE @[i]]]

\* BKE_layer_collection_convert: the LayerCollection stays in place for what
\* is now a group collection, the LayerCollections nested in it are freed.
BKE_layer_collection_convert(lc) == [lc EXCEPT !.layer_collections = <<>>]

\* The LayerCollections of sc the walk converts: it does not go below one.
RECURSIVE convert_calls(_, _, _)
convert_calls(lb, sc, path) ==
  UNION {IF lb[i].scene_collection = sc
         THEN {path \o <<i>>}
         ELSE convert_calls(lb[i].layer_collections, sc, path \o <<i>>) :
           i \in 1..Len(lb)}

RECURSIVE collection_group_convert_layer_collections(_, _)
collection_group_convert_layer_collections(lb, sc) ==
  [i \in 1..Len(lb) |->
     IF lb[i].scene_collection = sc
     THEN BKE_layer_collection_convert(lb[i])
     ELSE [lb[i] EXCEPT !.layer_collections =
             collection_group_convert_layer_collections(@, sc)]]

\* The guard without the walk over the render layers.
group_create_refused_by_source_only(sc_src) ==
  \/ type[sc_src] = COLLECTION_TYPE_GROUP
  \/ sc_src = sc_master

group_create_refused(sc_src) ==
  \/ type[sc_src] = COLLECTION_TYPE_GROUP
  \/ sc_src = sc_master
  \/ \E sl \in Layers :
       \E i \in 1..Len(render_layers[sl].layer_collections) :
         is_collection_in_tree(render_layers[sl].layer_collections[i].scene_collection,
                               sc_src)

\* lc_src is the LayerCollection at path lc of render layer sl.
BKE_collection_group_create(sl, lc) ==
  LET lc_src == lc_at(render_layers[sl].layer_collections, lc)
      sc_src == lc_src.scene_collection
  IN
  /\ sc_src \in InTree
  /\ IF group_create_refused(sc_src)
     THEN /\ last' = CallOnLayer("BKE_collection_group_create", NULL, sc_src, NULL,
                                 sl, lc, FALSE, NULL)
          /\ synced' = <<>>
          /\ converted' = {}
          /\ UNCHANGED <<treeVars, objects, us, render_layers, groups, iter>>
     ELSE
       /\ Len(groups) < MaxGroups
       /\ LET g == Len(groups) + 1
              copy == collection_copy_data(sc_src)
              sc_dst == [name |-> BLI_uniquename_cb({}, DefaultName, name[sc_src]),
                         type |-> COLLECTION_TYPE_GROUP_INTERNAL,
                         objects |-> copy.objects,
                         scene_collections |-> copy.scene_collections]
              collection == group_retype([name |-> MasterName,
                                          type |-> COLLECTION_TYPE_NONE,
                                          objects |-> <<>>,
                                          scene_collections |-> <<sc_dst>>],
                                         COLLECTION_TYPE_GROUP_INTERNAL)
              lc_dst == layer_collection_sync(
                          group_layer_collection_add(collection.scene_collections[1], <<1>>),
                          lc_src)
              copied == [Store EXCEPT !.us = copy_data_users(@, sc_src, TRUE),
                                      !.type[sc_src] = COLLECTION_TYPE_GROUP,
                                      !.group[sc_src] = g]
              st == collection_free(copied, sc_src, TRUE)
          IN  /\ groups' = Append(groups, [collection |-> collection,
                                           scene_layer |-> [layer_collections |-> <<lc_dst>>]])
              /\ render_layers' =
                   [l \in Layers |->
                      [render_layers[l] EXCEPT !.layer_collections =
                         collection_group_convert_layer_collections(@, sc_src)]]
              /\ converted' =
                   UNION {{<<l, p>> : p \in convert_calls(render_layers[l].layer_collections,
                                                          sc_src, <<>>)} : l \in Layers}
              /\ alive' = st.alive
              /\ scene_collections' = st.scene_collections
              /\ objects' = st.objects
              /\ name' = st.name
              /\ type' = st.type
              /\ group' = st.group
              /\ us' = st.us
              /\ synced' = <<>>
              /\ last' = CallOnLayer("BKE_collection_group_create", NULL, sc_src, NULL,
                                     sl, lc, TRUE, g)
              /\ UNCHANGED iter

(***************************************************************************)
(* Objects of a collection.  A call works on the objects lists and the     *)
(* user counts, and leaves the calls it made into the layer engine.        *)
(***************************************************************************)
Members == [objects |-> objects, us |-> us, synced |-> <<>>, ret |-> TRUE]

\* BLI_findptr(&sc->objects, ob, offsetof(LinkData, data)) != NULL
BLI_findptr(lb, ob) == ob \in Range(lb)

collection_object_add(m, sc, ob) ==
  [m EXCEPT !.objects[sc] = BLI_addtail(@, ob),
            !.us[ob] = id_us_plus(@),
            !.synced = Append(@, <<"BKE_layer_sync_object_link", sc, ob>>)]

object_add(m, sc, ob) ==
  IF BLI_findptr(m.objects[sc], ob)
  THEN [m EXCEPT !.ret = FALSE]
  ELSE [collection_object_add(m, sc, ob) EXCEPT !.ret = TRUE]

\* The removal without the test for membership.
object_remove_unchecked(m, sc, ob) ==
  [m EXCEPT !.objects[sc] = BLI_remlink(@, ob),
            !.us[ob] = id_us_min(@),
            !.synced = Append(@, <<"BKE_layer_sync_object_unlink", sc, ob>>),
            !.ret = TRUE]

\* free_us is false: the user count is lowered, the object is not freed.
object_remove(m, sc, ob) ==
  IF ~BLI_findptr(m.objects[sc], ob)
  THEN [m EXCEPT !.ret = FALSE]
  ELSE [m EXCEPT !.objects[sc] = BLI_remlink(@, ob),
                 !.us[ob] = id_us_min(@),
                 !.synced = Append(@, <<"BKE_layer_sync_object_unlink", sc, ob>>),
                 !.ret = TRUE]

object_move(m, sc_dst, sc_src, ob) ==
  object_remove(object_add(m, sc_dst, ob), sc_src, ob)

ObjectCall(op, sc_dst, sc_src, ob, m) ==
  /\ objects' = m.objects
  /\ us' = m.us
  /\ synced' = m.synced
  /\ last' = Call(op, sc_dst, sc_src, ob, m.ret)
  /\ converted' = {}
  /\ UNCHANGED <<treeVars, render_layers, groups, iter>>

BKE_collection_object_add(sc, ob) ==
  ObjectCall("BKE_collection_object_add", NULL, sc, ob, object_add(Members, sc, ob))

BKE_collection_object_remove(sc, ob) ==
  ObjectCall("BKE_collection_object_remove", NULL, sc, ob, object_remove(Members, sc, ob))

\* The move returns nothing: ret is kept TRUE.
BKE_collection_object_move(sc_dst, sc_src, ob) ==
  ObjectCall("BKE_collection_object_move", sc_dst, sc_src, ob,
             [object_move(Members, sc_dst, sc_src, ob) EXCEPT !.ret = TRUE])

(***************************************************************************)
(* Iterators.  FOREACH_SCENE_OBJECT runs begin, then its body on           *)
(* iter->current and next for as long as iter->valid holds, then end:      *)
(* yielded lists what the body has been run on.                            *)
(***************************************************************************)
RECURSIVE scene_collection_callback(_)
RECURSIVE scene_collection_callback_each(_)
scene_collection_callback_each(lb) ==
  IF lb = <<>> THEN <<>>
  ELSE scene_collection_callback(Head(lb)) \o scene_collection_callback_each(Tail(lb))

\* The collections the callback is called on, in the order of the calls.
scene_collection_callback(sc) ==
  <<sc>> \o scene_collection_callback_each(scene_collections[sc])

scene_collections_array == scene_collection_callback(sc_master)

\* The step that stops one collection early.
BKE_scene_collections_iterator_next_short(it) ==
  IF it.cur + 2 < it.tot
  THEN [it EXCEPT !.cur = @ + 1, !.sc_current = it.array[it.cur + 2]]
  ELSE [it EXCEPT !.cur = @ + 1, !.sc_valid = FALSE]

\* The wrapped iterator over the collections: cur counts from 0.
\* The step of an iterator that builds its array again from the tree as it is.
BKE_scene_collections_iterator_next_live(it) ==
  LET array == scene_collections_array IN
  IF it.cur + 1 < Len(array)
  THEN [it EXCEPT !.array = array, !.tot = Len(array), !.cur = @ + 1,
                  !.sc_current = array[it.cur + 2]]
  ELSE [it EXCEPT !.array = array, !.tot = Len(array), !.cur = @ + 1, !.sc_valid = FALSE]

BKE_scene_collections_iterator_begin ==
  [array |-> scene_collections_array, tot |-> Len(scene_collections_array), cur |-> 0,
   sc_current |-> scene_collections_array[1], sc_valid |-> TRUE]

BKE_scene_collections_iterator_next(it) ==
  IF it.cur + 1 < it.tot
  THEN [it EXCEPT !.cur = @ + 1, !.sc_current = it.array[it.cur + 2]]
  ELSE [it EXCEPT !.cur = @ + 1, !.sc_valid = FALSE]

\* The first link of the list whose object is not in gs, which then takes it.
RECURSIVE object_base_unique(_, _)
object_base_unique(gs, link) ==
  IF link = <<>> THEN [link |-> <<>>, visited |-> gs]
  ELSE IF Head(link) \notin gs THEN [link |-> link, visited |-> gs \cup {Head(link)}]
  ELSE object_base_unique(gs, Tail(link))

\* The do-while of BKE_scene_objects_iterator_next.
RECURSIVE objects_iterator_collections(_)
objects_iterator_collections(it) ==
  LET new_link == object_base_unique(it.visited, objects[it.sc_current]) IN
  IF new_link.link # <<>>
  THEN [it EXCEPT !.visited = new_link.visited,
                  !.link_next = Tail(new_link.link),
                  !.current = Head(new_link.link)]
  ELSE LET it1 == BKE_scene_collections_iterator_next([it EXCEPT !.visited = new_link.visited])
       IN  IF it1.sc_valid THEN objects_iterator_collections(it1)
           ELSE [it1 EXCEPT !.valid = FALSE]

objects_iterator_next(it) ==
  LET found == object_base_unique(it.visited, it.link_next) IN
  IF it.link_next # <<>> /\ found.link # <<>>
  THEN [it EXCEPT !.visited = found.visited,
                  !.link_next = Tail(found.link),
                  !.current = Head(found.link)]
  ELSE objects_iterator_collections(
         BKE_scene_collections_iterator_next(
           [it EXCEPT !.visited = IF it.link_next # <<>> THEN found.visited ELSE @]))

objects_iterator_begin ==
  LET data == BKE_scene_collections_iterator_begin
      first == objects[data.sc_current]
      it == [active |-> TRUE, array |-> data.array, tot |-> data.tot, cur |-> data.cur,
             sc_current |-> data.sc_current, sc_valid |-> data.sc_valid,
             visited |-> {}, link_next |-> <<>>,
             current |-> IF first = <<>> THEN NULL ELSE Head(first),
             valid |-> TRUE, yielded |-> <<>>]
  IN  IF it.current = NULL THEN objects_iterator_next(it) ELSE it

\* The body of the loop runs on iter->current when iter->valid holds.
Yield(it) == IF it.valid THEN [it EXCEPT !.yielded = Append(@, it.current)] ELSE it

IterCall(op, it) ==
  /\ iter' = it
  /\ last' = Call(op, NULL, NULL, NULL, TRUE)
  /\ synced' = <<>>
  /\ converted' = {}
  /\ UNCHANGED <<treeVars, objects, us, render_layers, groups>>

BKE_scene_objects_iterator_begin ==
  /\ ~iter.active
  /\ IterCall("BKE_scene_objects_iterator_begin", Yield(objects_iterator_begin))

BKE_scene_objects_iterator_next ==
  /\ iter.active
  /\ iter.valid
  /\ IterCall("BKE_scene_objects_iterator_next", Yield(objects_iterator_next(iter)))

BKE_scene_objects_iterator_end ==
  /\ iter.active
  /\ ~iter.valid
  /\ IterCall("BKE_scene_objects_iterator_end", NoIter)

(***************************************************************************)
(* Objects of the whole scene: calls that walk every collection of the     *)
(* tree with FOREACH_SCENE_COLLECTION, over the array built at its begin.  *)
(***************************************************************************)
\* BKE_libblock_free_us: one user less; the block is freed when none is left.
BKE_libblock_free_us(n) == id_us_min(n)

\* BKE_collection_object_remove with free_us true.
object_remove_free_us(m, sc, ob) ==
  IF ~BLI_findptr(m.objects[sc], ob)
  THEN [m EXCEPT !.ret = FALSE]
  ELSE [m EXCEPT !.objects[sc] = BLI_remlink(@, ob),
                 !.us[ob] = BKE_libblock_free_us(@),
                 !.synced = Append(@, <<"BKE_layer_sync_object_unlink", sc, ob>>),
                 !.ret = TRUE]

BKE_collection_object_remove_free_us(sc, ob) ==
  ObjectCall("BKE_collection_object_remove(free_us)", NULL, sc, ob,
             object_remove_free_us(Members, sc, ob))

\* The loop of BKE_collection_object_add_from over the collections scs.
\* The loop left at the first collection that holds ob_src.
RECURSIVE object_add_from_first(_, _, _, _)
object_add_from_first(m, scs, ob_src, ob_dst) ==
  IF scs = <<>> THEN m
  ELSE IF BLI_findptr(m.objects[Head(scs)], ob_src)
       THEN collection_object_add(m, Head(scs), ob_dst)
       ELSE object_add_from_first(m, Tail(scs), ob_src, ob_dst)

RECURSIVE object_add_from(_, _, _, _)
object_add_from(m, scs, ob_src, ob_dst) ==
  IF scs = <<>> THEN m
  ELSE object_add_from(IF BLI_findptr(m.objects[Head(scs)], ob_src)
                       THEN collection_object_add(m, Head(scs), ob_dst)
                       ELSE m,
                       Tail(scs), ob_src, ob_dst)

\* The call returns nothing: ret is kept TRUE.  sc_dst and sc_src of the
\* record hold ob_dst and ob_src.
BKE_collection_object_add_from(ob_src, ob_dst) ==
  ObjectCall("BKE_collection_object_add_from", ob_dst, ob_src, ob_dst,
             object_add_from(Members, scene_collections_array, ob_src, ob_dst))

\* The loop of BKE_collections_object_remove: removed |= ...object_remove(...).
RECURSIVE collections_object_remove(_, _, _, _)
collections_object_remove(m, scs, ob, removed) ==
  IF scs = <<>> THEN [m EXCEPT !.ret = removed]
  ELSE LET m1 == object_remove(m, Head(scs), ob)
       IN  collections_object_remove(m1, Tail(scs), ob, removed \/ m1.ret)

\* free_us is false.
BKE_collections_object_remove(ob) ==
  ObjectCall("BKE_collections_object_remove", NULL, NULL, ob,
             collections_object_remove(Members, scene_collections_array, ob, FALSE))

(***************************************************************************)
(* FOREACH_SCENE_COLLECTION: begin, then the body on iter->current and     *)
(* next for as long as iter->valid holds, then end.                        *)
(***************************************************************************)
YieldCollection(it) ==
  IF it.sc_valid THEN [it EXCEPT !.yielded = Append(@, it.sc_current)] ELSE it

scene_collections_foreach_begin ==
  /\ ~iter.active
  /\ LET data == BKE_scene_collections_iterator_begin
     IN  IterCall("BKE_scene_collections_iterator_begin",
                  YieldCollection([active |-> TRUE, array |-> data.array, tot |-> data.tot,
                                   cur |-> data.cur, sc_current |-> data.sc_current,
                                   sc_valid |-> data.sc_valid, yielded |-> <<>>]))

scene_collections_foreach_next ==
  /\ iter.active
  /\ iter.sc_valid
  /\ IterCall("BKE_scene_collections_iterator_next",
              YieldCollection(BKE_scene_collections_iterator_next(iter)))

\* BKE_scene_collections_iterator_end frees the array and the data.
scene_collections_foreach_end ==
  /\ iter.active
  /\ ~iter.sc_valid
  /\ IterCall("BKE_scene_collections_iterator_end", NoIter)

(***************************************************************************)
(* The scene after construction: the master collection alone, render       *)
(* layers with nothing linked, objects no collection holds.                *)
(***************************************************************************)
Init ==
  /\ alive = {sc_master}
  /\ scene_collections = [sc \in Colls |-> <<>>]
  /\ objects = [sc \in Colls |-> <<>>]
  /\ name = [sc \in Colls |-> IF sc = sc_master THEN MasterName ELSE EmptyName]
  /\ type = [sc \in Colls |-> COLLECTION_TYPE_NONE]
  /\ group = [sc \in Colls |-> NULL]
  /\ us = [ob \in Objs |-> 0]
  /\ render_layers = [sl \in Layers |-> [layer_collections |-> <<>>, active_collection |-> 0]]
  /\ groups = <<>>
  /\ synced = <<>>
  /\ converted = {}
  /\ last = Call("scene", NULL, NULL, NULL, TRUE)
  /\ iter = NoIter

(***************************************************************************)
(* SpecTree: the structural operations on a scene with nothing linked into *)
(* its render layers.                                                      *)
(***************************************************************************)
NextTree ==
  \/ \E sc \in MEM_callocN(Colls), sc_parent \in InTree \cup {NULL} :
       BKE_collection_add(sc, sc_parent, COLLECTION_TYPE_NONE, NULL_NAME)
  \/ \E sc \in InTree : BKE_collection_remove(sc)
  \/ \E sc_dst \in InTree, sc_src \in InTree : BKE_collection_move_above(sc_dst, sc_src)
  \/ \E sc_dst \in InTree, sc_src \in InTree : BKE_collection_move_below(sc_dst, sc_src)
  \/ \E sc_dst \in InTree, sc_src \in InTree : BKE_collection_move_into(sc_dst, sc_src)

SpecTree == Init /\ [][NextTree]_vars

(***************************************************************************)
(* SpecScene: the structural operations, collections linked into the       *)
(* render layers, and conversion into groups.                              *)
(***************************************************************************)
LayerCollectionsOf(sl) == lc_paths(render_layers[sl].layer_collections)

NextScene ==
  \/ \E sc \in MEM_callocN(1..MaxLinkedColl), sc_parent \in InTree \cup {NULL} :
       BKE_collection_add(sc, sc_parent, COLLECTION_TYPE_NONE, NULL_NAME)
  \/ \E sc \in InTree : BKE_collection_remove(sc)
  \/ \E sc_dst \in InTree, sc_src \in InTree : BKE_collection_move_above(sc_dst, sc_src)
  \/ \E sc_dst \in InTree, sc_src \in InTree : BKE_collection_move_below(sc_dst, sc_src)
  \/ \E sc_dst \in InTree, sc_src \in InTree : BKE_collection_move_into(sc_dst, sc_src)
  \/ \E sl \in Layers, sc \in InTree : BKE_collection_link(sl, sc)
  \/ \E sl \in Layers : \E lc \in LayerCollectionsOf(sl) : BKE_collection_group_create(sl, lc)

SpecScene == Init /\ [][NextScene]_vars

(***************************************************************************)
(* SpecLink: collections created, linked into render layers and removed.   *)
(***************************************************************************)
NextLink ==
  \/ \E sc \in MEM_callocN(1..MaxLinkedColl), sc_parent \in InTree \cup {NULL} :
       BKE_collection_add(sc, sc_parent, COLLECTION_TYPE_NONE, NULL_NAME)
  \/ \E sl \in Layers, sc \in InTree : BKE_collection_link(sl, sc)
  \/ \E sl \in Layers, n \in 0..1 : layer_set_active_collection(sl, n)
  \/ \E sc \in InTree : BKE_collection_remove(sc)

SpecLink == Init /\ [][NextLink]_vars

(***************************************************************************)
(* The scene with one link per render layer, where MEM_callocN may return  *)
(* any free block, a block freed before included.                          *)
(***************************************************************************)
NextReuse ==
  \/ /\ \A sl \in Layers : Cardinality(LayerCollectionsOf(sl)) < MaxLayerCollections
     /\ \E sc \in Colls \ alive, sc_parent \in InTree :
          BKE_collection_add(sc, sc_parent, COLLECTION_TYPE_NONE, NULL_NAME)
  \/ \E sc \in InTree : BKE_collection_remove(sc)
  \/ \E sl \in Layers, sc \in InTree :
       /\ render_layers[sl].layer_collections = <<>>
       /\ BKE_collection_link(sl, sc)
  \/ \E sl \in Layers : \E lc \in LayerCollectionsOf(sl) : BKE_collection_group_create(sl, lc)

SpecReuse == Init /\ [][NextReuse]_vars

(***************************************************************************)
(* SpecObj: collections created and removed, objects added to them,        *)
(* removed from them and moved between them.                               *)
(***************************************************************************)
NextObj ==
  \/ \E sc \in MEM_callocN(1..MaxLinkedColl), sc_parent \in InTree \cup {NULL} :
       BKE_collection_add(sc, sc_parent, COLLECTION_TYPE_NONE, NULL_NAME)
  \/ \E sc \in InTree : BKE_collection_remove(sc)
  \/ \E sc \in InTree, ob \in Objs : BKE_collection_object_add(sc, ob)
  \/ \E sc \in InTree, ob \in Objs : BKE_collection_object_remove(sc, ob)
  \/ \E sc_dst \in InTree, sc_src \in InTree, ob \in Objs :
       BKE_collection_object_move(sc_dst, sc_src, ob)

SpecObj == Init /\ [][NextObj]_vars

(***************************************************************************)
(* SpecName: collections created and renamed with requested names.         *)
(***************************************************************************)
RequestedNames == {NULL_NAME, EmptyName, MasterName, Name("A", 0)}

NextName ==
  \/ \E sc \in MEM_callocN(1..MaxLinkedColl), sc_parent \in InTree, name_in \in RequestedNames :
       BKE_collection_add(sc, sc_parent, COLLECTION_TYPE_NONE, name_in)
  \/ \E sc \in InTree, name_in \in RequestedNames \ {NULL_NAME} :
       BKE_collection_rename(sc, name_in)
  \/ \E sc \in InTree : BKE_collection_remove(sc)

SpecName == Init /\ [][NextName]_vars

(***************************************************************************)
(* SpecIter: a scene built of collections and objects, and loops over its  *)
(* objects; nothing changes the scene while a loop runs.                   *)
(***************************************************************************)
NextIter ==
  \/ /\ ~iter.active
     /\ \E sc \in MEM_callocN(1..MaxLinkedColl), sc_parent \in InTree :
          BKE_collection_add(sc, sc_parent, COLLECTION_TYPE_NONE, NULL_NAME)
  \/ /\ ~iter.active
     /\ \E sc \in InTree, ob \in Objs : BKE_collection_object_add(sc, ob)
  \/ BKE_scene_objects_iterator_begin
  \/ BKE_scene_objects_iterator_next
  \/ BKE_scene_objects_iterator_end

SpecIter == Init /\ [][NextIter]_vars

(***************************************************************************)
(* SpecCopy: objects added, removed, moved, added where another object is  *)
(* (as when an object is copied) and removed from the whole scene.         *)
(***************************************************************************)
ObjectLinks == UNION {{<<sc, i>> : i \in 1..Len(objects[sc])} : sc \in Colls}

NextCopy ==
  \/ \E sc \in MEM_callocN(1..MaxLinkedColl), sc_parent \in InTree :
       BKE_collection_add(sc, sc_parent, COLLECTION_TYPE_NONE, NULL_NAME)
  \/ \E sc \in InTree, ob \in Objs : BKE_collection_object_add(sc, ob)
  \/ \E sc \in InTree, ob \in Objs : BKE_collection_object_remove(sc, ob)
  \/ \E sc \in InTree, ob \in Objs : BKE_collection_object_remove_free_us(sc, ob)
  \/ \E sc_dst \in InTree, sc_src \in InTree, ob \in Objs :
       BKE_collection_object_move(sc_dst, sc_src, ob)
  \/ /\ Cardinality(ObjectLinks) < MaxObjLinks
     /\ \E ob_src \in Objs, ob_dst \in Objs : BKE_collection_object_add_from(ob_src, ob_dst)
  \/ \E ob \in Objs : BKE_collections_object_remove(ob)

SpecCopy == Init /\ [][NextCopy]_vars

(***************************************************************************)
(* SpecWalk: a tree built and reordered, and loops over its collections;   *)
(* nothing changes the scene while a loop runs.                            *)
(***************************************************************************)
NextWalk ==
  \/ /\ ~iter.active
     /\ \E sc \in MEM_callocN(Colls), sc_parent \in InTree :
          BKE_collection_add(sc, sc_parent, COLLECTION_TYPE_NONE, NULL_NAME)
  \/ /\ ~iter.active
     /\ \E sc \in InTree : BKE_collection_remove(sc)
  \/ /\ ~iter.active
     /\ \E sc_dst \in InTree, sc_src \in InTree : BKE_collection_move_above(sc_dst, sc_src)
  \/ /\ ~iter.active
     /\ \E sc_dst \in InTree, sc_src \in InTree : BKE_collection_move_into(sc_dst, sc_src)
  \/ scene_collections_foreach_begin
  \/ scene_collections_foreach_next
  \/ scene_collections_foreach_end

SpecWalk == Init /\ [][NextWalk]_vars

(***************************************************************************)
(* SpecSnapshot: a loop over the collections of the scene with collections *)
(* created and moved between its steps.                                    *)
(***************************************************************************)
NextSnapshot ==
  \/ \E sc \in MEM_callocN(Colls), sc_parent \in InTree :
       BKE_collection_add(sc, sc_parent, COLLECTION_TYPE_NONE, NULL_NAME)
  \/ \E sc_dst \in InTree, sc_src \in InTree : BKE_collection_move_above(sc_dst, sc_src)
  \/ \E sc_dst \in InTree, sc_src \in InTree : BKE_collection_move_below(sc_dst, sc_src)
  \/ \E sc_dst \in InTree, sc_src \in InTree : BKE_collection_move_into(sc_dst, sc_src)
  \/ scene_collections_foreach_begin
  \/ scene_collections_foreach_next
  \/ scene_collections_foreach_end

SpecSnapshot == Init /\ [][NextSnapshot]_vars

(***************************************************************************)
(* SpecUsers: objects added, removed, moved and copied, collections        *)
(* created, removed, linked into a render layer and converted into a       *)
(* group.  Collections are created and linked while the scene has no       *)
(* group; the operations on objects and BKE_collection_remove go on after  *)
(* the conversion.                                                         *)
(***************************************************************************)
NextUsers ==
  \/ /\ groups = <<>>
     /\ \E sc \in MEM_callocN(1..MaxLinkedColl), sc_parent \in InTree :
          BKE_collection_add(sc, sc_parent, COLLECTION_TYPE_NONE, NULL_NAME)
  \/ \E sc \in InTree : BKE_collection_remove(sc)
  \/ /\ Cardinality(ObjectLinks) < MaxUserLinks
     /\ \E sc \in InTree, ob \in Objs : BKE_collection_object_add(sc, ob)
  \/ \E sc \in InTree, ob \in Objs : BKE_collection_object_remove(sc, ob)
  \/ /\ Cardinality(ObjectLinks) < MaxUserLinks
     /\ \E sc_dst \in InTree, sc_src \in InTree, ob \in Objs :
          BKE_collection_object_move(sc_dst, sc_src, ob)
  \/ /\ Cardinality(ObjectLinks) < MaxUserLinks
     /\ \E ob_src \in Objs, ob_dst \in Objs : BKE_collection_object_add_from(ob_src, ob_dst)
  \/ \E sl \in Layers, sc \in InTree :
       /\ groups = <<>>
       /\ render_layers[sl].layer_collections = <<>>
       /\ BKE_collection_link(sl, sc)
  \/ \E sl \in Layers : \E lc \in LayerCollectionsOf(sl) : BKE_collection_group_create(sl, lc)

SpecUsers == Init /\ [][NextUsers]_vars

(***************************************************************************)
(* SpecRefuse: a scene with objects in its collections and a link in its   *)
(* render layer, and the operations that can return false or NULL.         *)
(***************************************************************************)
NextRefuse ==
  \/ /\ groups = <<>>
     /\ \E sc \in MEM_callocN(1..MaxLinkedColl), sc_parent \in InTree :
          BKE_collection_add(sc, sc_parent, COLLECTION_TYPE_NONE, NULL_NAME)
  \/ /\ Cardinality(ObjectLinks) < MaxRefuseLinks
     /\ \E sc \in InTree, ob \in Objs : BKE_collection_object_add(sc, ob)
  \/ \E sl \in Layers, sc \in InTree :
       /\ render_layers[sl].layer_collections = <<>>
       /\ BKE_collection_link(sl, sc)
  \/ \E sc \in InTree : BKE_collection_remove(sc)
  \/ \E sc_dst \in InTree, sc_src \in InTree : BKE_collection_move_above(sc_dst, sc_src)
  \/ \E sc_dst \in InTree, sc_src \in InTree : BKE_collection_move_below(sc_dst, sc_src)
  \/ \E sc_dst \in InTree, sc_src \in InTree : BKE_collection_move_into(sc_dst, sc_src)
  \/ \E sl \in Layers : \E lc \in LayerCollectionsOf(sl) : BKE_collection_group_create(sl, lc)

SpecRefuse == Init /\ [][NextRefuse]_vars

(***************************************************************************)
(* The terms of the claims, defined on the state alone.                    *)
(***************************************************************************)
MoveOps ==
  {"BKE_collection_move_above", "BKE_collection_move_below", "BKE_collection_move_into"}

\* The collections nested in sc at any depth, and the collection whose list holds sc.
Descendants(sc) == NestedIn(scene_collections, sc)
ParentOf(sc) == HolderOf(sc)
Occurrences(sc) ==
  {pi \in Colls \X (1..MaxColl) :
     pi[2] <= Len(scene_collections[pi[1]]) /\ scene_collections[pi[1]][pi[2]] = sc}
Resync(sc) == <<"BKE_layer_collection_resync", sc, NULL>>

(***************************************************************************)
(* C1: a move of T above, below or into a destination D that is T itself   *)
(* or is nested in T returns false.                                        *)
(***************************************************************************)
C1_MoveIntoOwnSubtreeRefused ==
  [][(/\ last'.op \in MoveOps
      /\ \/ last'.sc_dst = last'.sc_src
         \/ last'.sc_dst \in Descendants(last'.sc_src))
     => last'.ret = FALSE]_vars

(***************************************************************************)
(* C2: whatever Create, Remove and the moves are called with, the          *)
(* collections stay a tree under the master: none is nested in itself,     *)
(* each but the master is in exactly one list, exactly once, and each      *)
(* allocated one is reached from the master.                               *)
(***************************************************************************)
C2_TreeRootedAtMaster ==
  /\ \A sc \in alive : sc \notin Descendants(sc)
  /\ \A sc \in alive \ {sc_master} : Cardinality(Occurrences(sc)) = 1
  /\ Occurrences(sc_master) = {}
  /\ alive = InTree

(***************************************************************************)
(* C10: a move that returns true has issued exactly two resyncs, for the   *)
(* parent sc_src had and then for its new parent (the parent of sc_dst, or *)
(* sc_dst itself for move_into); and with master -> B -> C, moving C into  *)
(* the master returns true, makes C the master's last collection and       *)
(* resyncs B, then the master.                                             *)
(***************************************************************************)
C10_MoveResyncsOldThenNewParent ==
  [][/\ (last'.op \in MoveOps /\ last'.ret)
        => synced' = << Resync(ParentOf(last'.sc_src)),
                        Resync(IF last'.op = "BKE_collection_move_into"
                               THEN last'.sc_dst ELSE ParentOf(last'.sc_dst)) >>
     /\ \A B \in Colls, C \in Colls :
          (/\ scene_collections[sc_master] = <<B>>
           /\ scene_collections[B] = <<C>>
           /\ scene_collections[C] = <<>>
           /\ last'.op = "BKE_collection_move_into"
           /\ last'.sc_dst = sc_master
           /\ last'.sc_src = C)
          => /\ last'.ret
             /\ scene_collections'[sc_master] = <<B, C>>
             /\ scene_collections'[B] = <<>>
             /\ synced' = <<Resync(B), Resync(sc_master)>>]_vars

C10_Witness ==
  /\ last.op = "BKE_collection_move_into"
  /\ last.ret
  /\ last.sc_dst = sc_master
  /\ Len(scene_collections[sc_master]) = 2
  /\ scene_collections[sc_master][2] = last.sc_src
  /\ synced = <<Resync(scene_collections[sc_master][1]), Resync(sc_master)>>

(***************************************************************************)
(* More terms of the claims.                                               *)
(***************************************************************************)
\* The collections the top-level LayerCollections of the render layers reference.
TopLevelLinked ==
  UNION {{render_layers[sl].layer_collections[i].scene_collection :
            i \in 1..Len(render_layers[sl].layer_collections)} : sl \in Layers}

\* The LayerCollections, top-level or nested, that reference sc.
LayerCollectionsOn(sc) ==
  UNION {{<<sl, p>> : p \in {q \in LayerCollectionsOf(sl) :
                              lc_at(render_layers[sl].layer_collections, q).scene_collection = sc}} :
           sl \in Layers}

(***************************************************************************)
(* C3, as claimed: the master is never removed, moved or converted, and a  *)
(* move returns false whenever sc_src or sc_dst is the master.             *)
(***************************************************************************)
C3_MasterRefusedAsSourceOrDestination ==
  /\ (last.op = "BKE_collection_remove" /\ last.sc_src = sc_master) => ~last.ret
  /\ (last.op = "BKE_collection_group_create" /\ last.sc_src = sc_master) => ~last.ret
  /\ (last.op \in MoveOps /\ sc_master \in {last.sc_src, last.sc_dst}) => ~last.ret

(***************************************************************************)
(* C3, amended: removing the master returns false, converting a            *)
(* LayerCollection of the master returns NULL, move_above and move_below   *)
(* return false when sc_src or sc_dst is the master, and move_into returns *)
(* false when sc_src is the master; the master stays allocated, in no      *)
(* collection's list, and is never a group collection.                     *)
(***************************************************************************)
C3_MasterNeverRemovedMovedConverted ==
  /\ (last.op = "BKE_collection_remove" /\ last.sc_src = sc_master) => ~last.ret
  /\ (last.op = "BKE_collection_group_create" /\ last.sc_src = sc_master) => ~last.ret
  /\ (/\ last.op \in {"BKE_collection_move_above", "BKE_collection_move_below"}
      /\ sc_master \in {last.sc_src, last.sc_dst}) => ~last.ret
  /\ (last.op = "BKE_collection_move_into" /\ last.sc_src = sc_master) => ~last.ret
  /\ sc_master \in alive
  /\ Occurrences(sc_master) = {}
  /\ type[sc_master] # COLLECTION_TYPE_GROUP
  /\ group[sc_master] = NULL

C3_Witness ==
  /\ last.op = "BKE_collection_group_create"
  /\ last.sc_src = sc_master
  /\ ~last.ret
  /\ scene_collections[sc_master] # <<>>

(***************************************************************************)
(* C5, as claimed: the conversion returns NULL and creates no Group when   *)
(* a top-level LayerCollection of a render layer references the source     *)
(* collection itself or a collection nested in it.                         *)
(***************************************************************************)
C5_RefusedWhenSourceOrNestedLinked ==
  [][(/\ last'.op = "BKE_collection_group_create"
      /\ TopLevelLinked \cap ({last'.sc_src} \cup Descendants(last'.sc_src)) # {})
     => (~last'.ret /\ groups' = groups)]_vars

(***************************************************************************)
(* C5, amended: the conversion returns NULL and creates no Group when a    *)
(* top-level LayerCollection of a render layer references a collection     *)
(* nested in the source; a top-level LayerCollection of the source itself  *)
(* does not refuse it: a source that is neither the master nor a group     *)
(* collection, with no nested collection linked, is converted.             *)
(***************************************************************************)
C5_RefusedWhenNestedLinked ==
  [][last'.op = "BKE_collection_group_create"
     => /\ (TopLevelLinked \cap Descendants(last'.sc_src) # {})
             => (~last'.ret /\ groups' = groups)
        /\ (/\ TopLevelLinked \cap Descendants(last'.sc_src) = {}
            /\ last'.sc_src # sc_master
            /\ type[last'.sc_src] # COLLECTION_TYPE_GROUP)
             => (last'.ret /\ Len(groups') = Len(groups) + 1)]_vars

C5_Witness ==
  /\ last.op = "BKE_collection_group_create"
  /\ ~last.ret
  /\ last.sc_src # sc_master
  /\ type[last.sc_src] # COLLECTION_TYPE_GROUP
  /\ TopLevelLinked \cap Descendants(last.sc_src) # {}
  /\ groups = <<>>

(***************************************************************************)
(* C7: every LayerCollection of every render layer references a collection *)
(* of the scene's tree, and a remove that returned true has left no        *)
(* LayerCollection of the removed collection and has reset every render    *)
(* layer's active collection.                                              *)
(***************************************************************************)
C7_LayerCollectionsReferenceTheTree ==
  /\ \A sl \in Layers : \A p \in LayerCollectionsOf(sl) :
       lc_at(render_layers[sl].layer_collections, p).scene_collection \in InTree
  /\ (last.op = "BKE_collection_remove" /\ last.ret)
       => /\ LayerCollectionsOn(last.sc_src) = {}
          /\ \A sl \in Layers : render_layers[sl].active_collection = 0

(***************************************************************************)
(* C9: a conversion that returned a Group G has left the source S a group  *)
(* collection with G attached, without objects and without nested          *)
(* collections, and has called the layer conversion on exactly the         *)
(* LayerCollections, at any depth of any render layer, that referenced S.  *)
(***************************************************************************)
C9_ConvertedSourceAndLayerCollections ==
  [][(last'.op = "BKE_collection_group_create" /\ last'.ret)
     => /\ type'[last'.sc_src] = COLLECTION_TYPE_GROUP
        /\ group'[last'.sc_src] = last'.res
        /\ last'.res = Len(groups')
        /\ Len(groups') = Len(groups) + 1
        /\ objects'[last'.sc_src] = <<>>
        /\ scene_collections'[last'.sc_src] = <<>>
        /\ converted' = LayerCollectionsOn(last'.sc_src)]_vars

(***************************************************************************)
(* C6: moving an object that src holds, to any dst (src itself included),  *)
(* leaves the object in dst and not in src, with the user count it had     *)
(* before the call, also when dst held the object already.                 *)
(***************************************************************************)
C6_MovedObjectInDstOnlyUsersKept ==
  [][(/\ last'.op = "BKE_collection_object_move"
      /\ last'.ob \in Range(objects[last'.sc_src]))
     => /\ last'.ob \in Range(objects'[last'.sc_dst])
        /\ last'.ob \notin Range(objects'[last'.sc_src])
        /\ us'[last'.ob] = us[last'.ob]]_vars

(***************************************************************************)
(* C4: a loop over the objects of the scene that has run until the         *)
(* iterator became invalid has yielded every object that some collection   *)
(* of the tree holds exactly once, and no other object; no object is       *)
(* yielded twice while the loop runs.                                      *)
(***************************************************************************)
SceneObjects == UNION {Range(objects[sc]) : sc \in InTree}

C4_EachObjectYieldedOnce ==
  iter.active =>
    /\ \A i, j \in DOMAIN iter.yielded : iter.yielded[i] = iter.yielded[j] => i = j
    /\ ~iter.valid => Range(iter.yielded) = SceneObjects

(***************************************************************************)
(* C8: any two distinct collections of the tree rooted at the master, the  *)
(* master included, have different names.                                  *)
(***************************************************************************)
C8_NamesUniqueInTree ==
  \A sc1 \in InTree, sc2 \in InTree : sc1 # sc2 => name[sc1] # name[sc2]

(***************************************************************************)
(* More terms of the claims: objects.                                      *)
(***************************************************************************)
\* The number of links to ob in the list lb.
Count(lb, ob) == Cardinality({i \in DOMAIN lb : lb[i] = ob})

RemoveObjectOps ==
  {"BKE_collection_object_remove", "BKE_collection_object_remove(free_us)"}

(***************************************************************************)
(* C11: after BKE_collection_object_add(sc, ob), the same call made again  *)
(* returns false, changes no objects list, no user count and issues no     *)
(* layer notification, and ob is in the objects list of sc exactly once.   *)
(***************************************************************************)
C11_AddObjectTwiceLeavesOne ==
  last.op = "BKE_collection_object_add"
    => LET second == object_add(Members, last.sc_src, last.ob)
       IN  /\ ~second.ret
           /\ second.objects = objects
           /\ second.us = us
           /\ second.synced = <<>>
           /\ Count(second.objects[last.sc_src], last.ob) = 1

(***************************************************************************)
(* C12: BKE_collection_object_remove, with free_us false or true, of an    *)
(* object the collection does not hold returns false and changes nothing:  *)
(* no objects list, no user count, no collection, no LayerCollection, and  *)
(* no layer notification is issued.                                        *)
(***************************************************************************)
C12_RemoveNonMemberChangesNothing ==
  [][(/\ last'.op \in RemoveObjectOps
      /\ last'.ob \notin Range(objects[last'.sc_src]))
     => /\ ~last'.ret
        /\ objects' = objects
        /\ us' = us
        /\ synced' = <<>>
        /\ UNCHANGED <<treeVars, render_layers, groups>>]_vars

C12_Witness ==
  /\ last.op = "BKE_collection_object_remove(free_us)"
  /\ ~last.ret
  /\ last.ob \notin Range(objects[last.sc_src])
  /\ \E sc \in InTree : last.ob \in Range(objects[sc])
  /\ us[last.ob] > 0

(***************************************************************************)
(* C13: a loop over the collections of a tree of N collections, master     *)
(* included, yields N collections, each collection of the tree once, a     *)
(* parent before the collections nested in it, the collections of one      *)
(* list in the order of the list, every subtree in one run (depth first),  *)
(* and the iterator is invalid after the N-th.                             *)
(***************************************************************************)
\* Where the loop has yielded sc.
YieldedAt(sc) == {i \in DOMAIN iter.yielded : iter.yielded[i] = sc}

C13_CollectionsYieldedDepthFirst ==
  iter.active =>
    /\ \A i, j \in DOMAIN iter.yielded : iter.yielded[i] = iter.yielded[j] => i = j
    /\ Range(iter.yielded) \subseteq InTree
    /\ iter.sc_valid => Len(iter.yielded) <= Cardinality(InTree)
    /\ ~iter.sc_valid =>
         /\ Len(iter.yielded) = Cardinality(InTree)
         /\ Range(iter.yielded) = InTree
         /\ iter.yielded[1] = sc_master
         /\ \A sc \in InTree \ {sc_master} :
              \A i \in YieldedAt(sc) : \E j \in YieldedAt(ParentOf(sc)) : j < i
         /\ \A p \in InTree : \A a, b \in DOMAIN scene_collections[p] :
              a < b => \A i \in YieldedAt(scene_collections[p][a]) :
                         \A j \in YieldedAt(scene_collections[p][b]) : i < j
         /\ \A sc \in InTree : \A i \in YieldedAt(sc) :
              {iter.yielded[k] : k \in i..(i + Cardinality(Descendants(sc)))}
                = {sc} \cup Descendants(sc)

C13_Witness ==
  /\ iter.active
  /\ ~iter.sc_valid
  /\ Len(iter.yielded) = 4
  /\ Len(scene_collections[sc_master]) = 2
  /\ scene_collections[scene_collections[sc_master][1]] # <<>>

(***************************************************************************)
(* C14: after BKE_collections_object_remove(main, owner, ob, false) no     *)
(* collection of the tree holds ob, and the call returns true exactly when *)
(* some collection of the tree held ob before the call.                    *)
(***************************************************************************)
C14_RemovedFromEveryCollection ==
  [][last'.op = "BKE_collections_object_remove"
     => /\ \A sc \in InTree : last'.ob \notin Range(objects'[sc])
        /\ last'.ret <=> (\E sc \in InTree : last'.ob \in Range(objects[sc]))]_vars

(***************************************************************************)
(* C15: in a BKE_collection_object_move of an object that sc_src holds,    *)
(* the add to sc_dst runs before the remove from sc_src: after the add and *)
(* at the end of the call some collection of the scene holds the object.   *)
(***************************************************************************)
HeldBySome(lists, ob) == \E sc \in InTree : ob \in Range(lists[sc])

C15_MovedObjectNeverInNoCollection ==
  [][(/\ last'.op = "BKE_collection_object_move"
      /\ last'.ob \in Range(objects[last'.sc_src]))
     => LET added == object_add(Members, last'.sc_dst, last'.ob)
        IN  /\ HeldBySome(added.objects, last'.ob)
            /\ objects' = object_remove(added, last'.sc_src, last'.ob).objects
            /\ HeldBySome(objects', last'.ob)]_vars

(***************************************************************************)
(* C16: after a BKE_collection_move_above that returned true sc_src is the *)
(* collection just before sc_dst in the list of sc_dst's parent, after a   *)
(* BKE_collection_move_below that returned true the one just after it; the *)
(* collections of the tree are the same, sc_src keeps its own list, and    *)
(* every list keeps the order of its collections other than sc_src.        *)
(***************************************************************************)
Without(lb, sc) == SelectSeq(lb, LAMBDA x : x # sc)

SiblingOffset(op) == IF op = "BKE_collection_move_above" THEN -1 ELSE 1

\* The lists of tree that hold sc.
ListsHolding(tree, sc) == {p \in Colls : sc \in Range(tree[p])}

C16_MovedNextToDestination ==
  [][(/\ last'.op \in {"BKE_collection_move_above", "BKE_collection_move_below"}
      /\ last'.ret)
     => LET dst == last'.sc_dst
            src == last'.sc_src
        IN  /\ ListsHolding(scene_collections', dst) # {}
            /\ \A p \in ListsHolding(scene_collections', dst) :
                 /\ src \in Range(scene_collections'[p])
                 /\ BLI_findindex(scene_collections'[p], src)
                      = BLI_findindex(scene_collections'[p], dst) + SiblingOffset(last'.op)
            /\ InTree' = InTree
            /\ scene_collections'[src] = scene_collections[src]
            /\ \A p \in Colls :
                 Without(scene_collections'[p], src) = Without(scene_collections[p], src)]_vars

(***************************************************************************)
(* C17: after BKE_collection_object_add_from(scene, ob_src, ob_dst) every  *)
(* collection of the scene that held ob_src holds ob_dst, and a collection *)
(* that did not hold ob_src has the objects list it had.                   *)
(***************************************************************************)
C17_AddedWhereSourceIsHeld ==
  [][last'.op = "BKE_collection_object_add_from"
     => \A sc \in InTree :
          IF last'.sc_src \in Range(objects[sc])
          THEN last'.ob \in Range(objects'[sc])
          ELSE objects'[sc] = objects[sc]]_vars

C17_Witness ==
  /\ last.op = "BKE_collection_object_add_from"
  /\ last.sc_src # last.ob
  /\ \E sc1 \in InTree, sc2 \in InTree :
       /\ Range(objects[sc1]) = {last.sc_src, last.ob}
       /\ Range(objects[sc2]) = {last.ob}
       /\ Len(synced) = 1

(***************************************************************************)
(* C18: the user count the scene's collections give an object is the       *)
(* number of links to it in the objects lists of the scene's collections;  *)
(* the links in the collections of a group count for nothing.              *)
(***************************************************************************)
RECURSIVE SumOver(_, _, _)
SumOver(S, lists, ob) ==
  IF S = {} THEN 0
  ELSE LET sc == CHOOSE x \in S : TRUE
       IN  Count(lists[sc], ob) + SumOver(S \ {sc}, lists, ob)

SceneLinks(ob) == SumOver(InTree, objects, ob)

C18_UsersAreSceneLinks == \A ob \in Objs : us[ob] = SceneLinks(ob)

C18_Witness ==
  /\ last.op = "BKE_collection_group_create"
  /\ last.ret
  /\ Len(groups) = 1
  /\ LET sc_dst == groups[1].collection.scene_collections[1]
     IN  /\ sc_dst.objects # <<>>
         /\ sc_dst.scene_collections # <<>>
         /\ sc_dst.scene_collections[1].objects # <<>>
  /\ \A ob \in Objs : us[ob] = 0

(***************************************************************************)
(* C19: whatever objects are added, removed, moved and copied with         *)
(* BKE_collection_object_add_from, the objects list of a collection holds  *)
(* no object more than once.                                               *)
(***************************************************************************)
C19_ObjectLinkedAtMostOnce ==
  \A sc \in Colls : \A ob \in Objs : Count(objects[sc], ob) <= 1

(***************************************************************************)
(* C20: a move or a BKE_collection_remove that returns false, and a        *)
(* BKE_collection_group_create that returns NULL, leave the collections,   *)
(* their objects lists, the user counts and the LayerCollections as they   *)
(* were, create no group and make no call into the layer engine.           *)
(***************************************************************************)
RefusableOps == MoveOps \cup {"BKE_collection_remove", "BKE_collection_group_create"}

C20_RefusedCallChangesNothing ==
  [][(last'.op \in RefusableOps /\ ~last'.ret)
     => /\ UNCHANGED <<alive, scene_collections, name, type, group>>
        /\ UNCHANGED <<objects, us, render_layers, groups>>
        /\ synced' = <<>>
        /\ converted' = {}
        /\ last'.res = NULL]_vars

C20_Witness ==
  /\ last.op \in MoveOps
  /\ ~last.ret
  /\ last.sc_dst \in Descendants(last.sc_src)
  /\ \E sc \in InTree : objects[sc] # <<>>
  /\ \E sl \in Layers : render_layers[sl].layer_collections # <<>>

(***************************************************************************)
(* C21: BKE_collection_remove of a collection of the tree other than the   *)
(* master returns true; the tree loses that collection and the collections *)
(* nested in it and nothing else, each object loses one user for each link *)
(* to it in the removed collections, and every collection that stays has   *)
(* the list of collections it had, less the removed one, and the objects   *)
(* list it had.                                                            *)
(***************************************************************************)
Subtree(sc) == {sc} \cup Descendants(sc)

C21_RemoveFreesTheSubtreeOnly ==
  [][(/\ last'.op = "BKE_collection_remove"
      /\ last'.sc_src # sc_master
      /\ last'.sc_src \in InTree)
     => /\ last'.ret
        /\ InTree' = InTree \ Subtree(last'.sc_src)
        /\ alive' = alive \ Subtree(last'.sc_src)
        /\ \A ob \in Objs :
             us'[ob] = us[ob] - SumOver(Subtree(last'.sc_src), objects, ob)
        /\ \A sc \in InTree \ Subtree(last'.sc_src) :
             /\ scene_collections'[sc] = Without(scene_collections[sc], last'.sc_src)
             /\ objects'[sc] = objects[sc]
             /\ name'[sc] = name[sc]]_vars

C21_Witness ==
  /\ last.op = "BKE_collection_remove"
  /\ last.ret
  /\ last.sc_src \notin alive
  /\ Cardinality(alive) = 2
  /\ \E sc \in InTree \ {sc_master} : Len(objects[sc]) = 2
  /\ \E ob \in Objs : us[ob] = 1

(***************************************************************************)
(* C22: after a BKE_collection_group_create that returned a group, the     *)
(* group's master collection holds no object and one collection, the copy; *)
(* the copy has the objects list the source had, and the collections       *)
(* nested in it have the shape, the order, the names and the objects lists *)
(* of those nested in the source; every collection of the copy is of type  *)
(* group-internal; and the user counts are those from before the call less *)
(* the links freed with the source, the copy having added no user.         *)
(***************************************************************************)
RECURSIVE SourceShape(_)
SourceShape(sc) ==
  [name |-> name[sc], objects |-> objects[sc],
   scene_collections |->
     [i \in 1..Len(scene_collections[sc]) |-> SourceShape(scene_collections[sc][i])]]

RECURSIVE CopyShape(_)
CopyShape(gc) ==
  [name |-> gc.name, objects |-> gc.objects,
   scene_collections |->
     [i \in 1..Len(gc.scene_collections) |-> CopyShape(gc.scene_collections[i])]]

RECURSIVE CopyTypes(_)
CopyTypes(gc) ==
  {gc.type} \cup UNION {CopyTypes(gc.scene_collections[i]) : i \in 1..Len(gc.scene_collections)}

C22_GroupHoldsCopyOfSource ==
  [][(last'.op = "BKE_collection_group_create" /\ last'.ret)
     => /\ Len(groups') = Len(groups) + 1
        /\ last'.res = Len(groups')
        /\ LET master == groups'[Len(groups')].collection
           IN  /\ master.objects = <<>>
               /\ Len(master.scene_collections) = 1
               /\ master.scene_collections[1].objects = objects[last'.sc_src]
               /\ CopyShape(master.scene_collections[1]).scene_collections
                    = SourceShape(last'.sc_src).scene_collections
               /\ CopyTypes(master.scene_collections[1]) = {COLLECTION_TYPE_GROUP_INTERNAL}
        /\ \A ob \in Objs :
             us'[ob] = us[ob] - SumOver(Subtree(last'.sc_src), objects, ob)]_vars

C22_Witness ==
  /\ last.op = "BKE_collection_group_create"
  /\ last.ret
  /\ type[last.sc_src] = COLLECTION_TYPE_GROUP
  /\ LET copy == groups[last.res].collection.scene_collections[1]
     IN  /\ copy.name = name[last.sc_src]
         /\ Len(copy.objects) = 1
         /\ Len(copy.scene_collections) = 1
         /\ Len(copy.scene_collections[1].objects) = 1
         /\ copy.scene_collections[1].objects # copy.objects

(***************************************************************************)
(* C23: what a loop over the collections of the scene yields is fixed when *)
(* it begins.  The array built at the begin is the tree of that moment in  *)
(* depth-first order; while the loop runs the array does not change,       *)
(* whatever is created or moved between its steps; the collections yielded *)
(* so far are the first entries of that array, one more after each next    *)
(* and all of them once the iterator is invalid; and a collection created  *)
(* while the loop runs is not in the array.                                *)
(***************************************************************************)
RECURSIVE DepthFirst(_, _)
RECURSIVE DepthFirstEach(_, _)
DepthFirstEach(tree, lb) ==
  IF lb = <<>> THEN <<>> ELSE DepthFirst(tree, Head(lb)) \o DepthFirstEach(tree, Tail(lb))

DepthFirst(tree, sc) == <<sc>> \o DepthFirstEach(tree, tree[sc])

C23_YieldsTheTreeAsItWasAtBegin ==
  [][/\ last'.op = "BKE_scene_collections_iterator_begin"
          => /\ iter'.array = DepthFirst(scene_collections, sc_master)
             /\ iter'.yielded = <<sc_master>>
     /\ (iter.active /\ iter'.active)
          => /\ iter'.array = iter.array
             /\ iter'.yielded = SubSeq(iter.array, 1, Len(iter'.yielded))
             /\ IF last'.op = "BKE_scene_collections_iterator_next"
                THEN IF iter'.sc_valid
                     THEN Len(iter'.yielded) = Len(iter.yielded) + 1
                     ELSE iter'.yielded = iter.array
                ELSE iter'.yielded = iter.yielded
             /\ last'.op = "BKE_collection_add" => last'.sc_src \notin Range(iter.array)]_vars

C23_Witness ==
  /\ iter.active
  /\ ~iter.sc_valid
  /\ Len(iter.yielded) = 3
  /\ Cardinality(InTree) = 4
  /\ iter.yielded # SubSeq(DepthFirst(scene_collections, sc_master), 1, 3)

====
